---- MODULE Spec2Model ----
(***************************************************************************)
(* caddy-simpletrace: W3C trace context propagation for Caddy.             *)
(*                                                                         *)
(* A Go string is modelled as a sequence of characters, each character a   *)
(* one-character TLA+ string.  Literals the code only compares or pastes   *)
(* whole (directive names, format names, project ids, log field names,     *)
(* the "projects/" and "/traces/" pieces of the resource path) are kept    *)
(* as a single element.  Everything the code splits, measures or scans     *)
(* (the traceparent header, its fields, generated ids, the flags) is       *)
(* spelled character by character.                                         *)
(***************************************************************************)
EXTENDS Integers, Sequences, FiniteSets, TLC

VARIABLES
    caddyfile,      \* tokens of the simpletrace block still to be unmarshalled
    environ,        \* value of the GOOGLE_CLOUD_PROJECT environment variable
    st,             \* the SimpleTrace struct: [Format, ProjectID]
    phase,          \* setup position: "caddyfile", "parsed", "setupError", "provisioned"
    pc,             \* per request: position inside ServeHTTP
    header,         \* per request: value of the request's traceparent header
    traceParent,    \* per request: local traceParent (header as read on entry)
    traceID,        \* per request: local traceID
    spanID,         \* per request: local spanID
    parentSpanID,   \* per request: local parentSpanID
    flags,          \* per request: local flags
    sampled,        \* per request: local sampled
    newTraceParent, \* per request: local newTraceParent
    logFields,      \* per request: local logFields
    extra,          \* per request: the ExtraLogFields of the request context
    nextCalls,      \* per request: number of calls of next.ServeHTTP
    randTrace,      \* per request: what rand.Read gives generateTraceID
    randSpan,       \* per request: what rand.Read gives generateSpanID
    flagArg,        \* argument of a direct parseSampledFlag call
    flagCalled,     \* whether that call has returned
    flagRet         \* its result

vars == <<caddyfile, environ, st, phase, pc, header, traceParent, traceID, spanID,
          parentSpanID, flags, sampled, newTraceParent, logFields, extra,
          nextCalls, randTrace, randSpan, flagArg, flagCalled, flagRet>>

reqVars == <<pc, header, traceParent, traceID, spanID, parentSpanID, flags, sampled,
             newTraceParent, logFields, extra, nextCalls, randTrace, randSpan>>

setupVars == <<caddyfile, environ, st, phase>>

flagVars == <<flagArg, flagCalled, flagRet>>

----------------------------------------------------------------------------
(* Bounds of the model *)

\* most '-'-separated fields in an incoming traceparent header
MaxFields == 5

\* most lines in the simpletrace block of the Caddyfile
MaxDirectives == 2

\* longest string handed to parseSampledFlag directly
MaxFlagLen == 3

----------------------------------------------------------------------------
(* Program constants *)

\* generateTraceID: make([]byte, 16)
TraceIDBytes == 16

\* generateSpanID: make([]byte, 8)
SpanIDBytes == 8

\* generateTraceID fallback: "%032x"
TraceIDWidth == 32

\* generateSpanID fallback: "%016x"
SpanIDWidth == 16

\* parseSampledFlag: len(flags) != 2
FlagsLen == 2

\* parseSampledFlag: the width of "%02x"
ScanWidth == 2

----------------------------------------------------------------------------
(* Strings *)

Empty == << >>

\* a literal kept whole
S(lit) == <<lit>>

Rep(c, n) == [i \in 1..n |-> c]

Dash == "-"

HexDigits == <<"0","1","2","3","4","5","6","7","8","9","a","b","c","d","e","f">>

RECURSIVE Join(_, _)
Join(fs, sep) ==
    IF Len(fs) = 0 THEN << >>
    ELSE IF Len(fs) = 1 THEN fs[1]
    ELSE fs[1] \o <<sep>> \o Join(Tail(fs), sep)

\* strings.Split(s, "-"): the fields between the separators, empty ones kept
Split(s, sep) ==
    LET at     == {i \in 1..Len(s) : s[i] = sep}
        n      == Cardinality(at)
        \* where the k-th separator stands; 0 and Len(s)+1 bound the string
        pos(k) == IF k = 0 THEN 0
                  ELSE IF k = n + 1 THEN Len(s) + 1
                  ELSE CHOOSE i \in at : Cardinality({j \in at : j <= i}) = k
    IN  [k \in 1..(n + 1) |-> SubSeq(s, pos(k - 1) + 1, pos(k) - 1)]

\* hex.EncodeToString: two lowercase hex digits per byte
EncodeToString(b) ==
    [i \in 1..(2 * Len(b)) |->
        IF i % 2 = 1 THEN HexDigits[(b[(i + 1) \div 2] \div 16) + 1]
        ELSE HexDigits[(b[i \div 2] % 16) + 1]]

RECURSIVE HexOf(_)
HexOf(n) ==
    IF n < 16 THEN <<HexDigits[n + 1]>>
    ELSE HexOf(n \div 16) \o <<HexDigits[(n % 16) + 1]>>

\* fmt.Sprintf("%0<width>x", n)
SprintfPaddedHex(width, n) ==
    LET d == HexOf(n)
    IN  IF Len(d) >= width THEN d ELSE Rep("0", width - Len(d)) \o d

----------------------------------------------------------------------------
(* parseSampledFlag and the scan behind it *)

\* the digits fmt accepts for the verb x
HexChars == {"0","1","2","3","4","5","6","7","8","9",
             "a","b","c","d","e","f","A","B","C","D","E","F"}

HexValue(c) ==
    CASE c = "0" -> 0  [] c = "1" -> 1  [] c = "2" -> 2  [] c = "3" -> 3
      [] c = "4" -> 4  [] c = "5" -> 5  [] c = "6" -> 6  [] c = "7" -> 7
      [] c = "8" -> 8  [] c = "9" -> 9
      [] c \in {"a", "A"} -> 10  [] c \in {"b", "B"} -> 11
      [] c \in {"c", "C"} -> 12  [] c \in {"d", "D"} -> 13
      [] c \in {"e", "E"} -> 14  [] c \in {"f", "F"} -> 15

\* fmt's SkipSpace: leading blanks of the input are dropped before a verb
RECURSIVE SkipSpace(_)
SkipSpace(s) ==
    IF s # << >> /\ Head(s) \in {" ", "\t"} THEN SkipSpace(Tail(s)) ELSE s

\* fmt's scanNumber: the longest run of digits, at most `width` of them
RECURSIVE ScanNumber(_, _)
ScanNumber(s, width) ==
    IF width = 0 \/ s = << >> \/ Head(s) \notin HexChars THEN << >>
    ELSE <<Head(s)>> \o ScanNumber(Tail(s), width - 1)

\* strconv.ParseUint(tok, 16, 64)
RECURSIVE ParseUint(_)
ParseUint(tok) ==
    IF tok = << >> THEN 0
    ELSE 16 * ParseUint(SubSeq(tok, 1, Len(tok) - 1)) + HexValue(tok[Len(tok)])

\* fmt.Sscanf(input, "%02x", &flagByte) with flagByte a byte: blanks are
\* skipped, up to two hex digits are scanned, whatever follows is left unread
SscanfHexByte(input) ==
    LET tok == ScanNumber(SkipSpace(input), ScanWidth)
    IN  IF tok = << >> THEN [err |-> TRUE, val |-> 0]
        ELSE IF ParseUint(tok) > 255 THEN [err |-> TRUE, val |-> 0]
        ELSE [err |-> FALSE, val |-> ParseUint(tok)]

parseSampledFlag(f) ==
    IF Len(f) # FlagsLen THEN FALSE
    ELSE LET r == SscanfHexByte(f)
         IN  IF r.err THEN FALSE ELSE (r.val % 2) = 1

----------------------------------------------------------------------------
(* Identifier generation *)

\* byte values rand.Read fills the buffer with in this model
RandByteVals == {171}

\* outcomes of rand.Read on a buffer of n bytes: an error, or n bytes
RandRead(n) ==
    {[err |-> TRUE, b |-> Rep(0, n)]} \cup
    {[err |-> FALSE, b |-> Rep(v, n)] : v \in RandByteVals}

generateTraceID(rr) ==
    IF rr.err THEN SprintfPaddedHex(TraceIDWidth, 0) ELSE EncodeToString(rr.b)

\* generateSpanID with the fallback of generateTraceID pasted in
generateSpanID_TraceFallback(rr) ==
    IF rr.err THEN SprintfPaddedHex(TraceIDWidth, 0) ELSE EncodeToString(rr.b)

generateSpanID(rr) ==
    IF rr.err THEN SprintfPaddedHex(SpanIDWidth, 0) ELSE EncodeToString(rr.b)

----------------------------------------------------------------------------
(* ServeHTTP: the trace context *)

Version00 == <<"0", "0">>

DefaultFlags == <<"0", "1">>

\* a fresh trace: both ids generated, sampled, no parent
FreshContext(rt, rs) ==
    [traceID      |-> generateTraceID(rt),
     spanID       |-> generateSpanID(rs),
     parentSpanID |-> Empty,
     flags        |-> DefaultFlags,
     sampled      |-> TRUE]

\* ParsedContext with the default flags put in place of the incoming ones
ParsedContext_DefaultFlags(parts, rs) ==
    [traceID      |-> parts[2],
     spanID       |-> generateSpanID(rs),
     parentSpanID |-> parts[3],
     flags        |-> DefaultFlags,
     sampled      |-> parseSampledFlag(parts[4])]

\* ParsedContext with the incoming span id kept as this request's own
ParsedContext_InheritSpan(parts, rs) ==
    [traceID      |-> parts[2],
     spanID       |-> parts[3],
     parentSpanID |-> parts[3],
     flags        |-> parts[4],
     sampled      |-> parseSampledFlag(parts[4])]

\* the header continues a trace
ParsedContext(parts, rs) ==
    [traceID      |-> parts[2],
     spanID       |-> generateSpanID(rs),
     parentSpanID |-> parts[3],
     flags        |-> parts[4],
     sampled      |-> parseSampledFlag(parts[4])]

\* the header is taken as it stands
Accepted(tp) ==
    /\ tp # Empty
    /\ Len(Split(tp, Dash)) = 4
    /\ Split(tp, Dash)[1] = Version00

\* TraceContext with the version check forgotten
TraceContext_AnyVersion(tp, rt, rs) ==
    IF tp # Empty
    THEN LET parts == Split(tp, Dash)
         IN  IF Len(parts) = 4
             THEN ParsedContext(parts, rs)
             ELSE FreshContext(rt, rs)
    ELSE FreshContext(rt, rs)

TraceContext(tp, rt, rs) ==
    IF tp # Empty
    THEN LET parts == Split(tp, Dash)
         IN  IF Len(parts) = 4 /\ parts[1] = Version00
             THEN ParsedContext(parts, rs)
             ELSE FreshContext(rt, rs)
    ELSE FreshContext(rt, rs)

\* fmt.Sprintf("00-%s-%s-%s", traceID, spanID, flags)
SprintfTraceParent(tid, sid, fl) ==
    <<"0", "0", "-">> \o tid \o <<"-">> \o sid \o <<"-">> \o fl

----------------------------------------------------------------------------
(* ServeHTTP: the log fields *)

\* zap.String, zap.Bool
ZapString(key, val) ==
    [Key |-> key, Type |-> "StringType", String |-> val, Integer |-> 0]

ZapBool(key, val) ==
    [Key |-> key, Type |-> "BoolType", String |-> Empty,
     Integer |-> IF val THEN 1 ELSE 0]

\* fmt.Sprintf("projects/%s/traces/%s", st.ProjectID, traceID)
SprintfTracePath(projectID, tid) ==
    S("projects/") \o projectID \o S("/traces/") \o tid

\* traceField, with the test for an empty project id forgotten
TraceField_AlwaysPath(cfg, tid) == SprintfTracePath(cfg.ProjectID, tid)

\* traceField := traceID; if st.ProjectID != "" { traceField = ... }
TraceField(cfg, tid) ==
    IF cfg.ProjectID # Empty THEN SprintfTracePath(cfg.ProjectID, tid) ELSE tid

\* FieldsOf with the parent field appended whether or not there is a parent
FieldsOf_AlwaysParent(traceKey, traceVal, spanKey, sampledKey, parentKey, ctx) ==
    <<ZapString(traceKey, traceVal),
      ZapString(spanKey, ctx.spanID),
      ZapBool(sampledKey, ctx.sampled),
      ZapString(parentKey, ctx.parentSpanID)>>

\* the three fields every case of the switch builds, and the parent span id
\* field each case appends when parentSpanID != ""
FieldsOf(traceKey, traceVal, spanKey, sampledKey, parentKey, ctx) ==
    <<ZapString(traceKey, traceVal),
      ZapString(spanKey, ctx.spanID),
      ZapBool(sampledKey, ctx.sampled)>>
    \o (IF ctx.parentSpanID # Empty
        THEN <<ZapString(parentKey, ctx.parentSpanID)>>
        ELSE << >>)

\* LogFields with the generic parent field name pasted into the ecs case
LogFields_EcsParentName(cfg, ctx) ==
    LET format == IF cfg.Format = Empty THEN S("otel") ELSE cfg.Format
    IN  CASE format \in {S("stackdriver"), S("gcp")} ->
               FieldsOf("logging.googleapis.com/trace",
                        TraceField(cfg, ctx.traceID),
                        "logging.googleapis.com/spanId",
                        "logging.googleapis.com/trace_sampled",
                        "parent_span_id", ctx)
          [] format = S("tempo") ->
               FieldsOf("traceID", ctx.traceID, "spanID", "traceSampled",
                        "parentSpanID", ctx)
          [] format = S("ecs") ->
               FieldsOf("trace.id", ctx.traceID, "span.id", "trace.sampled",
                        "parent_span_id", ctx)
          [] format \in {S("datadog"), S("dd")} ->
               FieldsOf("dd.trace_id", ctx.traceID, "dd.span_id", "dd.sampled",
                        "dd.parent_id", ctx)
          [] OTHER ->
               FieldsOf("trace_id", ctx.traceID, "span_id", "trace_sampled",
                        "parent_span_id", ctx)

LogFields(cfg, ctx) ==
    LET format == IF cfg.Format = Empty THEN S("otel") ELSE cfg.Format
    IN  CASE format \in {S("stackdriver"), S("gcp")} ->
               FieldsOf("logging.googleapis.com/trace",
                        TraceField(cfg, ctx.traceID),
                        "logging.googleapis.com/spanId",
                        "logging.googleapis.com/trace_sampled",
                        "parent_span_id", ctx)
          [] format = S("tempo") ->
               FieldsOf("traceID", ctx.traceID, "spanID", "traceSampled",
                        "parentSpanID", ctx)
          [] format = S("ecs") ->
               FieldsOf("trace.id", ctx.traceID, "span.id", "trace.sampled",
                        "span.parent_id", ctx)
          [] format \in {S("datadog"), S("dd")} ->
               FieldsOf("dd.trace_id", ctx.traceID, "dd.span_id", "dd.sampled",
                        "dd.parent_id", ctx)
          [] OTHER ->
               FieldsOf("trace_id", ctx.traceID, "span_id", "trace_sampled",
                        "parent_span_id", ctx)

----------------------------------------------------------------------------
(* Setup: UnmarshalCaddyfile and Provision *)

\* a token of the Caddyfile: its text and the line it stands on
Token(text, line) == [Text |-> text, Line |-> line]

\* Unmarshal with unknown subdirectives skipped instead of reported
RECURSIVE Unmarshal_SkipUnknown(_, _)
Unmarshal_SkipUnknown(s, toks) ==
    IF toks = << >> THEN [st |-> s, err |-> "nil"]
    ELSE LET key    == Head(toks)
             hasArg == Len(toks) >= 2 /\ toks[2].Line = key.Line
         IN  CASE key.Text = S("format") ->
                    IF ~hasArg THEN [st |-> s, err |-> "ArgErr"]
                    ELSE Unmarshal_SkipUnknown([s EXCEPT !.Format = toks[2].Text],
                                               SubSeq(toks, 3, Len(toks)))
               [] key.Text = S("project_id") ->
                    IF ~hasArg THEN [st |-> s, err |-> "ArgErr"]
                    ELSE Unmarshal_SkipUnknown([s EXCEPT !.ProjectID = toks[2].Text],
                                               SubSeq(toks, 3, Len(toks)))
               [] OTHER -> Unmarshal_SkipUnknown(s, Tail(toks))

\* the loop over d.NextBlock(0): each token met there is a subdirective name;
\* d.NextArg() takes the following token only when it stands on the same line
RECURSIVE Unmarshal(_, _)
Unmarshal(s, toks) ==
    IF toks = << >> THEN [st |-> s, err |-> "nil"]
    ELSE LET key    == Head(toks)
             hasArg == Len(toks) >= 2 /\ toks[2].Line = key.Line
         IN  CASE key.Text = S("format") ->
                    IF ~hasArg THEN [st |-> s, err |-> "ArgErr"]
                    ELSE Unmarshal([s EXCEPT !.Format = toks[2].Text],
                                   SubSeq(toks, 3, Len(toks)))
               [] key.Text = S("project_id") ->
                    IF ~hasArg THEN [st |-> s, err |-> "ArgErr"]
                    ELSE Unmarshal([s EXCEPT !.ProjectID = toks[2].Text],
                                   SubSeq(toks, 3, Len(toks)))
               [] OTHER -> [st |-> s, err |-> "unknown subdirective"]

EnvPlaceholder == "{env.GOOGLE_CLOUD_PROJECT}"

\* caddy's repl.ReplaceAll(input, ""): every placeholder gives way to its
\* value; the only placeholder of this model is the environment variable
RECURSIVE ReplaceAll(_, _)
ReplaceAll(input, env) ==
    IF input = << >> THEN << >>
    ELSE (IF Head(input) = EnvPlaceholder THEN env ELSE <<Head(input)>>)
         \o ReplaceAll(Tail(input), env)

ProvisionedProjectID(s, env) ==
    LET replaced == ReplaceAll(s.ProjectID, env)
    IN  IF replaced = Empty /\ s.Format \in {S("stackdriver"), S("gcp")}
        THEN ReplaceAll(S(EnvPlaceholder), env)
        ELSE replaced

----------------------------------------------------------------------------
(* Inputs *)

\* format names the Caddyfile may give: every name ServeHTTP knows and one
\* it does not
FormatNames == {S("otel"), S("stackdriver"), S("gcp"), S("tempo"), S("ecs"),
                S("datadog"), S("dd"), S("jaeger")}

ProjectNames == {S("my-project"), S(EnvPlaceholder)}

EnvValues == {Empty, S("env-project")}

\* the lines a simpletrace block may hold
DirectiveLines ==
    {<<S("format"), f>> : f \in FormatNames} \cup
    {<<S("project_id"), p>> : p \in ProjectNames} \cup
    {<<S("format")>>, <<S("project_id")>>, <<S("stackdriver"), S("my-project")>>,
     <<S("format"), S("tempo"), S("ecs")>>}

RECURSIVE LineSeqs(_)
LineSeqs(n) ==
    IF n = 0 THEN {<< >>}
    ELSE LineSeqs(n - 1) \cup
         {Append(b, l) : b \in {x \in LineSeqs(n - 1) : Len(x) = n - 1},
                         l \in DirectiveLines}

\* the tokens of the lines, each with its line number
RECURSIVE TokensOf(_, _)
TokensOf(lines, n) ==
    IF lines = << >> THEN << >>
    ELSE [i \in 1..Len(Head(lines)) |-> Token(Head(lines)[i], n)]
         \o TokensOf(Tail(lines), n + 1)

Caddyfiles == {TokensOf(ls, 1) : ls \in LineSeqs(MaxDirectives)}

ExampleTraceID ==
    <<"4","b","f","9","2","f","3","5","7","7","b","3","4","d","a","6",
      "a","3","c","e","9","2","9","d","0","e","0","e","4","7","3","6">>

\* what the i-th field of an incoming header may be
FieldVals(i) ==
    CASE i = 1 -> {Version00, <<"0", "1">>}
      [] i = 2 -> {ExampleTraceID, <<"a", "b", "c">>}
      [] i = 3 -> {Rep("0", 16), <<"d", "e", "f">>, Empty}
      [] i = 4 -> {<<"0", "1">>, <<"0", "0">>, <<"1", "z">>, <<"0">>}
      [] OTHER -> {<<"x">>}

RECURSIVE FieldTuples(_)
FieldTuples(n) ==
    IF n = 0 THEN {<< >>}
    ELSE {Append(t, v) : t \in FieldTuples(n - 1), v \in FieldVals(n)}

\* incoming traceparent values: none, and one to MaxFields fields
Headers ==
    {Empty} \cup
    {Join(f, Dash) : f \in UNION {FieldTuples(n) : n \in 1..MaxFields}}

FlagAlphabet == {"0", "1", "f", "F", "z", " "}

RECURSIVE FlagStrings(_)
FlagStrings(n) ==
    IF n = 0 THEN {<< >>}
    ELSE FlagStrings(n - 1) \cup
         {Append(s, c) : s \in {x \in FlagStrings(n - 1) : Len(x) = n - 1},
                         c \in FlagAlphabet}

Requests == {1}

----------------------------------------------------------------------------
(* Actions *)

\* parseCaddyfile -> UnmarshalCaddyfile
UnmarshalCaddyfile ==
    /\ phase = "caddyfile"
    /\ LET r == Unmarshal(st, caddyfile)
       IN  /\ st' = r.st
           /\ phase' = IF r.err = "nil" THEN "parsed" ELSE "setupError"
    /\ caddyfile' = << >>
    /\ UNCHANGED <<environ, reqVars, flagVars>>

Provision ==
    /\ phase = "parsed"
    /\ st' = [st EXCEPT !.ProjectID = ProvisionedProjectID(st, environ)]
    /\ phase' = "provisioned"
    /\ UNCHANGED <<caddyfile, environ, reqVars, flagVars>>

\* the host hands a request to the handler
Receive(r) ==
    /\ phase = "provisioned"
    /\ pc[r] = "idle"
    /\ \E h \in Headers : header' = [header EXCEPT ![r] = h]
    /\ pc' = [pc EXCEPT ![r] = "serve"]
    /\ UNCHANGED <<setupVars, flagVars, traceParent, traceID, spanID, parentSpanID,
                   flags, sampled, newTraceParent, logFields, extra, nextCalls,
                   randTrace, randSpan>>

\* ServeHTTP up to the log fields: all of it works on locals
ComputeContext(r) ==
    /\ pc[r] = "serve"
    /\ \E rt \in RandRead(TraceIDBytes), rs \in RandRead(SpanIDBytes) :
         \E ctx \in {TraceContext(header[r], rt, rs)} :
             /\ traceParent' = [traceParent EXCEPT ![r] = header[r]]
             /\ traceID' = [traceID EXCEPT ![r] = ctx.traceID]
             /\ spanID' = [spanID EXCEPT ![r] = ctx.spanID]
             /\ parentSpanID' = [parentSpanID EXCEPT ![r] = ctx.parentSpanID]
             /\ flags' = [flags EXCEPT ![r] = ctx.flags]
             /\ sampled' = [sampled EXCEPT ![r] = ctx.sampled]
             /\ newTraceParent' = [newTraceParent EXCEPT ![r] =
                    SprintfTraceParent(ctx.traceID, ctx.spanID, ctx.flags)]
             /\ logFields' = [logFields EXCEPT ![r] = LogFields(st, ctx)]
             /\ randTrace' = [randTrace EXCEPT ![r] = rt]
             /\ randSpan' = [randSpan EXCEPT ![r] = rs]
    /\ pc' = [pc EXCEPT ![r] = "attach"]
    /\ UNCHANGED <<setupVars, flagVars, header, extra, nextCalls>>

\* AttachFields writing to one ExtraLogFields shared by all requests
AttachFields_SharedExtra(r) ==
    /\ pc[r] = "attach"
    /\ extra' = [q \in DOMAIN extra |-> extra[q] \o logFields[r]]
    /\ pc' = [pc EXCEPT ![r] = "setHeader"]
    /\ UNCHANGED <<setupVars, flagVars, header, traceParent, traceID, spanID,
                   parentSpanID, flags, sampled, newTraceParent, logFields,
                   nextCalls, randTrace, randSpan>>

\* for _, field := range logFields { extra.Add(field) }
AttachFields(r) ==
    /\ pc[r] = "attach"
    /\ extra' = [extra EXCEPT ![r] = extra[r] \o logFields[r]]
    /\ pc' = [pc EXCEPT ![r] = "setHeader"]
    /\ UNCHANGED <<setupVars, flagVars, header, traceParent, traceID, spanID,
                   parentSpanID, flags, sampled, newTraceParent, logFields,
                   nextCalls, randTrace, randSpan>>

\* SetHeader that leaves the header as it came in
SetHeader_Forgotten(r) ==
    /\ pc[r] = "setHeader"
    /\ pc' = [pc EXCEPT ![r] = "next"]
    /\ UNCHANGED <<setupVars, flagVars, header, traceParent, traceID, spanID,
                   parentSpanID, flags, sampled, newTraceParent, logFields, extra,
                   nextCalls, randTrace, randSpan>>

\* r.Header.Set("traceparent", newTraceParent)
SetHeader(r) ==
    /\ pc[r] = "setHeader"
    /\ header' = [header EXCEPT ![r] = newTraceParent[r]]
    /\ pc' = [pc EXCEPT ![r] = "next"]
    /\ UNCHANGED <<setupVars, flagVars, traceParent, traceID, spanID, parentSpanID,
                   flags, sampled, newTraceParent, logFields, extra, nextCalls,
                   randTrace, randSpan>>

\* return next.ServeHTTP(w, r)
CallNext(r) ==
    /\ pc[r] = "next"
    /\ nextCalls' = [nextCalls EXCEPT ![r] = nextCalls[r] + 1]
    /\ pc' = [pc EXCEPT ![r] = "done"]
    /\ UNCHANGED <<setupVars, flagVars, header, traceParent, traceID, spanID,
                   parentSpanID, flags, sampled, newTraceParent, logFields, extra,
                   randTrace, randSpan>>

\* a direct call of parseSampledFlag
CallParseSampledFlag ==
    /\ ~flagCalled
    /\ flagRet' = parseSampledFlag(flagArg)
    /\ flagCalled' = TRUE
    /\ UNCHANGED <<setupVars, reqVars, flagArg>>

----------------------------------------------------------------------------
(* Specifications *)

NoRead == [err |-> TRUE, b |-> << >>]

RequestInit ==
    /\ pc = [r \in Requests |-> "idle"]
    /\ header = [r \in Requests |-> Empty]
    /\ traceParent = [r \in Requests |-> Empty]
    /\ traceID = [r \in Requests |-> Empty]
    /\ spanID = [r \in Requests |-> Empty]
    /\ parentSpanID = [r \in Requests |-> Empty]
    /\ flags = [r \in Requests |-> Empty]
    /\ sampled = [r \in Requests |-> FALSE]
    /\ newTraceParent = [r \in Requests |-> Empty]
    /\ logFields = [r \in Requests |-> << >>]
    /\ extra = [r \in Requests |-> << >>]
    /\ nextCalls = [r \in Requests |-> 0]
    /\ randTrace = [r \in Requests |-> NoRead]
    /\ randSpan = [r \in Requests |-> NoRead]

Init ==
    /\ caddyfile \in Caddyfiles
    /\ environ \in EnvValues
    /\ st = [Format |-> Empty, ProjectID |-> Empty]
    /\ phase = "caddyfile"
    /\ RequestInit
    /\ flagArg = Empty
    /\ flagCalled = TRUE
    /\ flagRet = FALSE

Next ==
    \/ UnmarshalCaddyfile
    \/ Provision
    \/ \E r \in Requests : Receive(r)
    \/ \E r \in Requests : ComputeContext(r)
    \/ \E r \in Requests : AttachFields(r)
    \/ \E r \in Requests : SetHeader(r)
    \/ \E r \in Requests : CallNext(r)

Spec == Init /\ [][Next]_vars

\* requests the host serves at the same time
NumConcurrent == 2

ConcurrentRequests == 1..NumConcurrent

\* the headers of the concurrent requests: none, an accepted one, a rejected one
ConcurrentHeaders ==
    {Empty,
     <<"0", "0", "-", "a", "b", "c", "-", "d", "e", "f", "-", "0", "0">>,
     <<"0", "1", "-", "a", "b", "c", "-", "d", "e", "f", "-", "0", "1">>}

\* engines as Provision leaves them
ConcurrentEngines ==
    {[Format |-> Empty, ProjectID |-> Empty],
     [Format |-> S("stackdriver"), ProjectID |-> S("my-project")]}

\* the host hands one of several concurrent requests to the handler
ReceiveConcurrent(r) ==
    /\ phase = "provisioned"
    /\ pc[r] = "idle"
    /\ \E h \in ConcurrentHeaders : header' = [header EXCEPT ![r] = h]
    /\ pc' = [pc EXCEPT ![r] = "serve"]
    /\ UNCHANGED <<setupVars, flagVars, traceParent, traceID, spanID, parentSpanID,
                   flags, sampled, newTraceParent, logFields, extra, nextCalls,
                   randTrace, randSpan>>

\* a provisioned engine and its requests, none of them received yet
ConcurrentInit ==
    /\ caddyfile = << >>
    /\ environ = Empty
    /\ st \in ConcurrentEngines
    /\ phase = "provisioned"
    /\ pc = [r \in ConcurrentRequests |-> "idle"]
    /\ header = [r \in ConcurrentRequests |-> Empty]
    /\ traceParent = [r \in ConcurrentRequests |-> Empty]
    /\ traceID = [r \in ConcurrentRequests |-> Empty]
    /\ spanID = [r \in ConcurrentRequests |-> Empty]
    /\ parentSpanID = [r \in ConcurrentRequests |-> Empty]
    /\ flags = [r \in ConcurrentRequests |-> Empty]
    /\ sampled = [r \in ConcurrentRequests |-> FALSE]
    /\ newTraceParent = [r \in ConcurrentRequests |-> Empty]
    /\ logFields = [r \in ConcurrentRequests |-> << >>]
    /\ extra = [r \in ConcurrentRequests |-> << >>]
    /\ nextCalls = [r \in ConcurrentRequests |-> 0]
    /\ randTrace = [r \in ConcurrentRequests |-> NoRead]
    /\ randSpan = [r \in ConcurrentRequests |-> NoRead]
    /\ flagArg = Empty
    /\ flagCalled = TRUE
    /\ flagRet = FALSE

\* the ServeHTTP invocations of the requests, their steps interleaved freely
ConcurrentNext ==
    \/ \E r \in ConcurrentRequests : ReceiveConcurrent(r)
    \/ \E r \in ConcurrentRequests : ComputeContext(r)
    \/ \E r \in ConcurrentRequests : AttachFields(r)
    \/ \E r \in ConcurrentRequests : SetHeader(r)
    \/ \E r \in ConcurrentRequests : CallNext(r)

ConcurrentSpec == ConcurrentInit /\ [][ConcurrentNext]_vars

\* parseSampledFlag on its own, over every short string of FlagAlphabet
FlagInit ==
    /\ caddyfile = << >>
    /\ environ = Empty
    /\ st = [Format |-> Empty, ProjectID |-> Empty]
    /\ phase = "provisioned"
    /\ RequestInit
    /\ flagArg \in FlagStrings(MaxFlagLen)
    /\ flagCalled = FALSE
    /\ flagRet = FALSE

FlagNext == CallParseSampledFlag

FlagSpec == FlagInit /\ [][FlagNext]_vars

----------------------------------------------------------------------------
(* Vocabulary of the claims *)

\* the fields of the header a request came in with
Parts(r) == Split(traceParent[r], Dash)

\* ServeHTTP has computed the locals of request r
Computed(r) == pc[r] \in {"attach", "setHeader", "next", "done"}

\* ServeHTTP has attached the log fields of request r
Attached(r) == pc[r] \in {"setHeader", "next", "done"}

\* ServeHTTP has overwritten the header of request r
HeaderWritten(r) == pc[r] \in {"next", "done"}

LowerHexChars == {"0","1","2","3","4","5","6","7","8","9","a","b","c","d","e","f"}

\* s is n lowercase hex characters
IsHex(s, n) == Len(s) = n /\ \A i \in 1..Len(s) : s[i] \in LowerHexChars

CloudLogging(f) == f \in {S("stackdriver"), S("gcp")}

\* the value the trace log field carries for trace id tid under st
LoggedTrace(tid) ==
    IF CloudLogging(st.Format) /\ st.ProjectID # Empty
    THEN S("projects/") \o st.ProjectID \o S("/traces/") \o tid
    ELSE tid

----------------------------------------------------------------------------
(* C1: an accepted header's trace id and flags are adopted unchanged *)

\* C1 as stated: for every accepted header (4 fields, version "00") the logged
\* trace id value is the incoming second field and the outgoing header is
\* "00-" + incoming trace id + "-" + this request's span id + "-" + incoming
\* flags, whatever fields 2-4 hold.
C1_AdoptedAsStated ==
    \A r \in DOMAIN pc :
        (HeaderWritten(r) /\ Accepted(traceParent[r])) =>
            /\ extra[r][1].String = Parts(r)[2]
            /\ header[r] = Version00 \o <<Dash>> \o Parts(r)[2] \o <<Dash>>
                           \o extra[r][2].String \o <<Dash>> \o Parts(r)[4]

\* C1 amended: the same, except that under the stackdriver/gcp format with a
\* non-empty project id the logged trace value is the incoming second field
\* inside the resource path projects/{project_id}/traces/{trace_id}.
C1_Adopted ==
    \A r \in DOMAIN pc :
        (HeaderWritten(r) /\ Accepted(traceParent[r])) =>
            /\ extra[r][1].String = LoggedTrace(Parts(r)[2])
            /\ header[r] = Version00 \o <<Dash>> \o Parts(r)[2] \o <<Dash>>
                           \o extra[r][2].String \o <<Dash>> \o Parts(r)[4]

\* an accepted header whose trace id and flags are not of the W3C shape went
\* all the way through
C1_Witness ==
    \E r \in DOMAIN pc :
        /\ pc[r] = "done"
        /\ Accepted(traceParent[r])
        /\ Parts(r)[2] = <<"a", "b", "c">>
        /\ Parts(r)[4] = <<"1", "z">>

----------------------------------------------------------------------------
(* C2: the span id of a request is generated, never inherited *)

\* C2 as stated: the span id is the value generateSpanID produced, it is the
\* same in the log field and in the outgoing header, the incoming third field
\* only becomes the parent span id, and the span id differs from the incoming
\* span id.
C2_FreshSpanAsStated ==
    \A r \in DOMAIN pc :
        HeaderWritten(r) =>
            /\ extra[r][2].String = generateSpanID(randSpan[r])
            /\ Split(header[r], Dash)[3] = extra[r][2].String
            /\ Accepted(traceParent[r]) =>
                   /\ parentSpanID[r] = Parts(r)[3]
                   /\ extra[r][2].String # Parts(r)[3]

\* C2 amended: the span id is the value generateSpanID produced for this
\* request, the same in the log field and in the outgoing header; the incoming
\* third field only becomes the parent span id.  (The value can coincide with
\* the incoming span id when the generator itself returns it, as the all-zero
\* fallback does.)
C2_FreshSpan ==
    \A r \in DOMAIN pc :
        HeaderWritten(r) =>
            /\ extra[r][2].String = generateSpanID(randSpan[r])
            /\ Split(header[r], Dash)[3] = extra[r][2].String
            /\ parentSpanID[r] =
                   IF Accepted(traceParent[r]) THEN Parts(r)[3] ELSE Empty

\* an accepted header with a span id of its own was served with another one
C2_Witness ==
    \E r \in DOMAIN pc :
        /\ pc[r] = "done"
        /\ Accepted(traceParent[r])
        /\ Parts(r)[3] # Empty
        /\ extra[r][2].String # Parts(r)[3]

----------------------------------------------------------------------------
(* C3: a malformed or absent header is replaced by a fresh trace *)

----------------------------------------------------------------------------
(* C4: shape of the outgoing header *)

W3CShape(h) ==
    LET p == Split(h, Dash)
    IN  /\ Len(p) = 4
        /\ p[1] = <<"0", "0">>
        /\ IsHex(p[2], 32)
        /\ IsHex(p[3], 16)
        /\ IsHex(p[4], 2)

\* C4 as stated: for every request the header set before next is called has
\* four fields: "00", a 32-hex trace id, a 16-hex span id, a 2-hex flags field.
C4_WireShapeAsStated ==
    \A r \in DOMAIN pc : HeaderWritten(r) => W3CShape(header[r])

\* C4 amended: for every request the outgoing header has exactly four fields,
\* "00", the trace id, a 16-hex span id and the flags; the trace id is 32 hex
\* characters and the flags 2 hex characters whenever they were generated
\* (absent or rejected header) or the accepted header carried them in that
\* shape.
C4_WireShape ==
    \A r \in DOMAIN pc :
        HeaderWritten(r) =>
            LET p == Split(header[r], Dash)
            IN  /\ Len(p) = 4
                /\ p[1] = <<"0", "0">>
                /\ IsHex(p[3], 16)
                /\ ( \/ ~Accepted(traceParent[r])
                     \/ IsHex(Parts(r)[2], 32) /\ IsHex(Parts(r)[4], 2) )
                   => W3CShape(header[r])

\* a W3C-shaped header was continued while the entropy source failed
C4_Witness ==
    \E r \in DOMAIN pc :
        /\ pc[r] = "done"
        /\ Accepted(traceParent[r])
        /\ Parts(r)[2] = ExampleTraceID
        /\ Parts(r)[4] = <<"0", "0">>
        /\ randSpan[r].err

----------------------------------------------------------------------------
(* C5: parseSampledFlag *)

\* what C5 says parseSampledFlag returns
SampledAsStated(f) ==
    /\ Len(f) = 2
    /\ f[1] \in HexChars /\ f[2] \in HexChars
    /\ HexValue(f[2]) % 2 = 1

\* C5: parseSampledFlag returns false for every string that is not exactly two
\* characters or not a two-digit hex byte, and bit 0 of the byte otherwise.
C5_SampledFlag == flagCalled => (flagRet = SampledAsStated(flagArg))

----------------------------------------------------------------------------
(* C6: the log fields follow the vocabulary of the configured format *)

\* the vocabulary a format value selects
VocabularyOf(f) ==
    CASE f \in {Empty, S("otel")} -> "generic"
      [] f \in {S("stackdriver"), S("gcp")} -> "cloud-logging"
      [] f = S("tempo") -> "tempo"
      [] f = S("ecs") -> "ecs"
      [] f \in {S("datadog"), S("dd")} -> "datadog"
      [] OTHER -> "generic"

\* the field-name table: trace id, span id, sampled, parent span id
FieldNameTable(v) ==
    CASE v = "generic" ->
           <<"trace_id", "span_id", "trace_sampled", "parent_span_id">>
      [] v = "cloud-logging" ->
           <<"logging.googleapis.com/trace", "logging.googleapis.com/spanId",
             "logging.googleapis.com/trace_sampled", "parent_span_id">>
      [] v = "tempo" -> <<"traceID", "spanID", "traceSampled", "parentSpanID">>
      [] v = "ecs" -> <<"trace.id", "span.id", "trace.sampled", "span.parent_id">>
      [] v = "datadog" -> <<"dd.trace_id", "dd.span_id", "dd.sampled", "dd.parent_id">>

FieldTypes == <<"StringType", "StringType", "BoolType", "StringType">>

\* C6: for every format value the emitted fields are, in order, trace id, span
\* id, sampled (a boolean) and then the parent span id when there is one, named
\* by the row of the format's vocabulary; an empty or unrecognised format
\* value gives the generic names and the request is served all the same.
C6_Vocabulary ==
    \A r \in DOMAIN pc :
        Attached(r) =>
            LET row == FieldNameTable(VocabularyOf(st.Format))
                lf  == extra[r]
            IN  /\ Len(lf) = IF parentSpanID[r] # Empty THEN 4 ELSE 3
                /\ \A i \in 1..Len(lf) :
                       lf[i].Key = row[i] /\ lf[i].Type = FieldTypes[i]
                /\ lf[1].String = LoggedTrace(traceID[r])
                /\ lf[2].String = spanID[r]
                /\ lf[3].Integer = IF sampled[r] THEN 1 ELSE 0
                /\ Len(lf) = 4 => lf[4].String = parentSpanID[r]

\* a request was served under a format name ServeHTTP does not know, with the
\* four generic fields
C6_Witness ==
    \E r \in DOMAIN pc :
        /\ pc[r] = "done"
        /\ st.Format = S("jaeger")
        /\ Len(extra[r]) = 4
        /\ extra[r][1].Key = "trace_id"
        /\ extra[r][4].Key = "parent_span_id"

----------------------------------------------------------------------------
(* C7: the project id changes the trace field of cloud logging alone *)

\* C7: under stackdriver/gcp the trace field is
\* projects/{project_id}/traces/{trace_id} when the engine's project id is not
\* empty and the raw trace id when it is; under every other format, and in the
\* outgoing header under every format, the raw trace id is used whatever the
\* project id.
C7_ProjectPath ==
    \A r \in DOMAIN pc :
        Attached(r) =>
            /\ extra[r][1].String =
                   IF st.Format \in {S("stackdriver"), S("gcp")}
                   THEN IF st.ProjectID # Empty
                        THEN S("projects/") \o st.ProjectID \o S("/traces/")
                             \o traceID[r]
                        ELSE traceID[r]
                   ELSE traceID[r]
            /\ Split(newTraceParent[r], Dash)[2] = traceID[r]
            /\ HeaderWritten(r) => Split(header[r], Dash)[2] = traceID[r]

\* a request was served under another format although a project id is set
C7_Witness ==
    \E r \in DOMAIN pc :
        /\ pc[r] = "done"
        /\ st.Format = S("tempo")
        /\ st.ProjectID = S("my-project")
        /\ extra[r][1].String = traceID[r]

----------------------------------------------------------------------------
(* C8: what setup reports *)

RecognisedFormats == {S("otel"), S("stackdriver"), S("gcp"), S("tempo"),
                      S("ecs"), S("datadog"), S("dd")}

\* C8 as stated: no engine configured with an unrecognised format value ever
\* reaches ServeHTTP, because setup reports it as a configuration error.
C8_SetupErrorsAsStated ==
    (\E r \in DOMAIN pc : pc[r] # "idle") =>
        st.Format \in RecognisedFormats \cup {Empty}

\* every line of the block is one of the two keys followed by one argument
WellFormed(toks) ==
    \A n \in {toks[i].Line : i \in 1..Len(toks)} :
        LET l == SelectSeq(toks, LAMBDA t : t.Line = n)
        IN  Len(l) = 2 /\ l[1].Text \in {S("format"), S("project_id")}

\* C8 amended: an unknown configuration key, and a key without its argument,
\* are reported by UnmarshalCaddyfile as a configuration error during setup,
\* and an engine whose setup failed never serves a request; an unrecognised
\* format value is not an error (the engine is set up like any other).
C8_SetupErrors ==
    /\ [][(phase = "caddyfile" /\ phase' # "caddyfile") =>
              ((phase' = "setupError") = ~WellFormed(caddyfile))]_vars
    /\ [](phase = "setupError" =>
              \A r \in DOMAIN pc : pc[r] = "idle" /\ nextCalls[r] = 0)

\* setup failed on an unknown key after a format line had been read
C8_Witness == phase = "setupError" /\ st.Format = S("tempo")

----------------------------------------------------------------------------
(* C9: next is called once, last *)

\* a step of ServeHTTP for request r
ServeStep(r) ==
    ComputeContext(r) \/ AttachFields(r) \/ SetHeader(r) \/ CallNext(r)

\* C9: next is called exactly once per request, after the trace context is
\* computed, the log fields are attached and the header is overwritten, in
\* that order; nothing at request time keeps ServeHTTP from reaching the call.
C9_NextOnce ==
    \A r \in DOMAIN pc :
        /\ nextCalls[r] <= 1
        /\ pc[r] = "done" => nextCalls[r] = 1
        /\ nextCalls[r] = 1 =>
               /\ spanID[r] # Empty
               /\ newTraceParent[r] =
                      <<"0", "0", "-">> \o traceID[r] \o <<"-">> \o spanID[r]
                      \o <<"-">> \o flags[r]
               /\ Len(logFields[r]) >= 3
               /\ extra[r] = logFields[r]
               /\ header[r] = newTraceParent[r]
        /\ extra[r] # << >> =>
               /\ spanID[r] # Empty
               /\ extra[r] = logFields[r]
        /\ (pc[r] \notin {"idle", "serve"} /\ header[r] # traceParent[r]) =>
               /\ extra[r] # << >>
               /\ header[r] = newTraceParent[r]
        /\ (pc[r] \notin {"idle", "serve"} /\ extra[r] = << >>) =>
               nextCalls[r] = 0
        /\ pc[r] \in {"serve", "attach", "setHeader", "next"} =>
               ENABLED ServeStep(r)

\* next was called for a rejected header while both entropy reads failed
C9_Witness ==
    \E r \in DOMAIN pc :
        /\ nextCalls[r] = 1
        /\ traceParent[r] # Empty /\ ~Accepted(traceParent[r])
        /\ randTrace[r].err /\ randSpan[r].err

----------------------------------------------------------------------------
(* C10: when the parent span id field is emitted *)

\* C10 as stated: the parent span id field is emitted exactly when the header
\* was accepted, with the header's third field as its value.
C10_ParentAsStated ==
    \A r \in DOMAIN pc :
        Attached(r) =>
            IF Accepted(traceParent[r])
            THEN /\ Len(extra[r]) = 4
                 /\ extra[r][4].Key = FieldNameTable(VocabularyOf(st.Format))[4]
                 /\ extra[r][4].String = Parts(r)[3]
            ELSE Len(extra[r]) = 3

\* C10 amended: the parent span id field is emitted exactly when the header
\* was accepted and its third field is not empty, with that field as its
\* value; an accepted header with an empty third field, like a regenerated
\* trace, gives no parent span id field.
C10_Parent ==
    \A r \in DOMAIN pc :
        Attached(r) =>
            IF Accepted(traceParent[r]) /\ Parts(r)[3] # Empty
            THEN /\ Len(extra[r]) = 4
                 /\ extra[r][4].Key = FieldNameTable(VocabularyOf(st.Format))[4]
                 /\ extra[r][4].String = Parts(r)[3]
            ELSE Len(extra[r]) = 3

\* an accepted header without a parent span id was served with three fields
C10_Witness ==
    \E r \in DOMAIN pc :
        /\ pc[r] = "done"
        /\ Accepted(traceParent[r])
        /\ Parts(r)[3] = Empty
        /\ Len(extra[r]) = 3

----------------------------------------------------------------------------
(* C11: concurrent requests share nothing but the configuration *)

\* what request r owns: its header, its locals, its log context, its call of next
Owned(r) ==
    <<pc[r], header[r], traceParent[r], traceID[r], spanID[r], parentSpanID[r],
      flags[r], sampled[r], newTraceParent[r], logFields[r], extra[r],
      nextCalls[r], randTrace[r], randSpan[r]>>

\* the trace id, flags, sampled bit and parent span id request r ends up
\* with, from its own header and its own entropy reads
OwnTraceID(r) ==
    IF Accepted(traceParent[r]) THEN Parts(r)[2] ELSE generateTraceID(randTrace[r])

OwnFlags(r) ==
    IF Accepted(traceParent[r]) THEN Parts(r)[4] ELSE <<"0", "1">>

OwnSampled(r) ==
    IF Accepted(traceParent[r]) THEN parseSampledFlag(Parts(r)[4]) ELSE TRUE

OwnParent(r) ==
    IF Accepted(traceParent[r]) THEN Parts(r)[3] ELSE Empty

\* the log fields and the outgoing header of request r are these, whatever
\* the other requests hold
OwnOutput(r) ==
    LET row == FieldNameTable(VocabularyOf(st.Format))
        gs  == generateSpanID(randSpan[r])
    IN  /\ Attached(r) =>
               /\ Len(extra[r]) = IF OwnParent(r) # Empty THEN 4 ELSE 3
               /\ \A i \in 1..Len(extra[r]) : extra[r][i].Key = row[i]
               /\ extra[r][1].String = LoggedTrace(OwnTraceID(r))
               /\ extra[r][2].String = gs
               /\ extra[r][3].Integer = IF OwnSampled(r) THEN 1 ELSE 0
               /\ Len(extra[r]) = 4 => extra[r][4].String = OwnParent(r)
        /\ ~Attached(r) => extra[r] = << >>
        /\ HeaderWritten(r) =>
               header[r] = <<"0", "0", "-">> \o OwnTraceID(r) \o <<"-">> \o gs
                           \o <<"-">> \o OwnFlags(r)

\* C11: under every interleaving of ServeHTTP invocations for distinct
\* requests, a step of one request leaves the engine's format and project id
\* and everything the other requests own unchanged, and each request's log
\* fields and outgoing header are fixed by its own incoming header, the
\* configuration and its own generated ids.
C11_Isolation ==
    /\ [][\A r \in DOMAIN pc :
            Owned(r)' # Owned(r) =>
                /\ st' = st /\ phase' = phase /\ environ' = environ
                /\ \A q \in DOMAIN pc \ {r} : Owned(q)' = Owned(q)]_vars
    /\ [](\A r \in DOMAIN pc : OwnOutput(r))

\* two requests with different headers are inside ServeHTTP at once: one has
\* attached its fields and not yet written its header, the other was served
\* in the meantime, and their trace ids differ
C11_Witness ==
    \E r, q \in DOMAIN pc :
        /\ r # q
        /\ pc[r] = "setHeader"
        /\ pc[q] = "done"
        /\ Accepted(traceParent[r])
        /\ ~Accepted(traceParent[q])
        /\ extra[r][1].String # extra[q][1].String

====
